---- MODULE Spec2Model ----
(***************************************************************************)
(* certbot/lock_file.py: the UNIX lock file LockFile.                      *)
(*                                                                         *)
(* The model is the class LockFile run by several processes on one path,   *)
(* together with the part of the operating system its calls act on: the    *)
(* directory entry of the path, the inodes, the per-process descriptor     *)
(* tables and the POSIX record locks taken by fcntl.lockf.  Every system   *)
(* call of acquire() and release() is one step, so that the steps of       *)
(* different processes interleave exactly where the kernel lets them.      *)
(*                                                                         *)
(* Modelling decisions about the operating system:                         *)
(*  - os.open, fcntl.lockf, os.stat, os.remove and the os.close of         *)
(*    release() may fail; os.fstat on the descriptor just opened and the   *)
(*    os.close of that descriptor in acquire() do not;                     *)
(*  - a failing os.close still releases the descriptor;                    *)
(*  - a new file gets the lowest inode number that is neither linked nor   *)
(*    open: the code only compares inode numbers for equality.             *)
(***************************************************************************)
EXTENDS Naturals, FiniteSets, Sequences, TLC

(* ------------------------------ bounds -------------------------------- *)

\* number of processes, each owning one LockFile instance for the path
NProcs == 2
\* size of a process's descriptor table (open fails with EMFILE beyond it)
MaxFd == 2

Insts == 1 .. NProcs
Procs == 1 .. NProcs
Fds == 1 .. MaxFd
\* the path and every process can keep one inode alive each
Inodes == 1 .. (NProcs + 1)

\* self._fd = None, and "no local fd"
NoFd == 0
\* the path names no file
NoFile == 0
\* no process owns the lock of an inode
NoProc == 0
\* the device the directory of the path lives on
Dev == 1

LockPath == "lockfile"

(* ---------------------------- exceptions ------------------------------ *)

\* An exception is <<class, errno, call that raised it>>.
NoExc == <<"none", "", "">>
LockError == <<"LockError", "", "lockf">>
OSError(e, op) == <<"OSError", e, op>>
IOError(e, op) == <<"IOError", e, op>>
TypeError(op) == <<"TypeError", "", op>>
BodyError == <<"BodyError", "", "body">>

NoStat == [st_dev |-> 0, st_ino |-> 0]

\* what a call saw of the other instances
Busy == <<"busy", 0>>
Quiet(n) == <<"quiet", n>>
HeldBy(a) == <<"held", a>>

VARIABLES
    path,       \* the inode the directory entry of the path names, or NoFile
    lockOwner,  \* inode -> the process holding the record lock on it, or NoProc
    fdtab,      \* process -> descriptor -> the inode it is open on, or NoFile
    procOf,     \* instance -> the process it lives in
    self_path,  \* instance -> self._path
    self_fd,    \* instance -> self._fd (NoFd is None)
    pc,         \* instance -> where its current call stands
    ctx,        \* instance -> "direct" call, "with" statement, or "none"
    fd,         \* instance -> the local fd of acquire()
    stat1,      \* instance -> the local stat1 of acquire()
    exc,        \* instance -> the exception in flight in the current call
    bodyExc,    \* instance -> the exception the with-body raised
    failed,     \* instance -> <<call, errno>> of the system calls that
                \*   reported an error in this iteration (acquire) or call
                \*   (release)
    env,        \* instance -> what the current call saw of the others:
                \*   Quiet(n): they were all idle and unlocked since the call
                \*             began, when the path named n;
                \*   HeldBy(a): instance a of another process has held the
                \*             lock since the call began;  Busy: neither
    scen,       \* how far the observed scenario has come ("off": none is
                \*   observed)
    moved       \* instance -> has the path been unlinked or given a new file
                \*   by someone else since the os.open of the iteration under
                \*   way, and before its os.stat?

vars == <<path, lockOwner, fdtab, procOf, self_path, self_fd, pc, ctx, fd,
          stat1, exc, bodyExc, failed, env, scen, moved>>

(* ------------------------- operating system --------------------------- *)

FileOf(p, d) == IF d = NoFd THEN NoFile ELSE fdtab[p][d]

OpenFds(p) == {d \in Fds : fdtab[p][d] # NoFile}

InUse(n) == path = n \/ \E p \in Procs : \E d \in Fds : fdtab[p][d] = n

FreeInodes == {n \in Inodes : ~InUse(n)}

\* the inode number of a newly created file
NewInode == CHOOSE n \in FreeInodes : \A m \in FreeInodes : n <= m

\* open(2) returns the lowest descriptor number that is not open
LowestFree(p) == CHOOSE d \in Fds \ OpenFds(p) : \A e \in Fds \ OpenFds(p) : d <= e

\* close(2): the descriptor is released, and the POSIX record lock of the
\* process on the file goes with it.
FdtabAfterClose(p, d) ==
    IF d \in Fds THEN [fdtab EXCEPT ![p][d] = NoFile] ELSE fdtab

LocksAfterClose(p, d) ==
    IF d \in Fds /\ fdtab[p][d] # NoFile /\ lockOwner[fdtab[p][d]] = p
    THEN [lockOwner EXCEPT ![fdtab[p][d]] = NoProc]
    ELSE lockOwner

\* mutant of the lock: it excludes every other descriptor, also those of
\* the process that holds it (what fcntl.flock would do)
LockfConflictAnyOwner(owner, p) == owner # NoProc

\* fcntl.lockf takes a POSIX record lock, which is owned by the process: a
\* request conflicts only with the lock of another process
LockfConflict(owner, p) == owner \notin {NoProc, p}

\* os.stat / os.fstat results
StatOf(n) == [st_dev |-> Dev, st_ino |-> n]

\* the errors os.open can report, besides a full descriptor table
OpenErrnos == {"ENOENT"}
\* the errno fcntl reports when another process holds the lock
ContentionErrnos == {"EACCES", "EAGAIN"}
\* the other errors fcntl can report
LockErrnos == {"ENOLCK"}
\* the errors os.stat can report on a path that exists
StatErrnos == {"EACCES"}
\* the errors os.remove can report on a path that exists
RemoveErrnos == {"EACCES"}
\* the errors os.close can report on an open descriptor
CloseErrnos == {"EIO"}

\* the errors that come from the environment alone, not from what the
\* processes of the model did to the path, the lock or the descriptors
InjectedFaults ==
    ({"open"} \X OpenErrnos) \cup ({"lockf"} \X LockErrnos)
        \cup ({"stat"} \X StatErrnos) \cup ({"remove"} \X RemoveErrnos)
        \cup ({"close"} \X CloseErrnos)

(* ------------------------ LockFile: pure parts ------------------------ *)

\* mutant of _is_same_file: the inode is compared with the device
SameFileTypo(s1, s2) == s1.st_dev = s2.st_dev /\ s1.st_ino = s2.st_dev

\* mutants of _is_same_file: no comparison at all; the device only
AlwaysSameFile(s1, s2) == TRUE
SameDeviceOnly(s1, s2) == s1.st_dev = s2.st_dev

\* _is_same_file(stat1, stat2)
_is_same_file(s1, s2) == s1.st_dev = s2.st_dev /\ s1.st_ino = s2.st_ino

\* mutant of the flags of os.open: the file must not exist yet
OpenFlagsExclusive == {"O_CREAT", "O_WRONLY", "O_EXCL"}

\* the flags of os.open(self._path, os.O_CREAT | os.O_WRONLY, 0666)
OpenFlags == {"O_CREAT", "O_WRONLY"}

\* mutant of the loop condition: the loop body runs whatever self._fd is
WhileCondAlways(sfd) == TRUE

\* the loop condition of acquire(): while self._fd is None
WhileCond(sfd) == sfd = NoFd

\* mutants of the except clause of lockf: EACCES is not taken for
\* contention; every error is taken for contention
LockfHandlerEagainOnly(e) ==
    IF e \in {"EAGAIN"} THEN LockError ELSE IOError(e, "lockf")
LockfHandlerAnyErrno(e) == LockError

\* except IOError, e: around fcntl.lockf: what is raised for errno e
LockfHandler(e) ==
    IF e \in {"EACCES", "EAGAIN"} THEN LockError ELSE IOError(e, "lockf")

\* mutant of the except clause of os.stat: ENOENT is raised like the rest
StatHandlerRaisesAll(e) == OSError(e, "stat")

\* except OSError, e: around os.stat: what is raised for errno e (NoExc:
\* the error is swallowed and the loop goes on)
StatHandler(e) == IF e # "ENOENT" THEN OSError(e, "stat") ELSE NoExc

\* mutant of the finally of acquire(): fd is never closed
FinallyClosesNever(sfd) == FALSE

\* mutant of the finally of acquire(): fd is closed unconditionally
FinallyClosesAlways(sfd) == TRUE

\* finally of acquire(): is fd closed?
FinallyCloses(sfd) == sfd = NoFd

\* mutant of __enter__: release() is called when acquire() raised
AfterEnterCleansUp(e) == IF e = NoExc THEN "w_body" ELSE "r_remove"

\* __enter__: self.acquire(), nothing caught: the guarded block is entered
\* when acquire() returned, and its exception leaves the with statement
\* otherwise (__exit__ is only run once __enter__ has returned)
AfterEnter(e) == IF e = NoExc THEN "w_body" ELSE "idle"

\* mutant of __exit__: release() only when the guarded block raised nothing
ExitReleasesOnSuccess(e) == e = NoExc

\* __exit__(exc_type, exc_value, traceback): is release() called?
ExitReleases(e) == TRUE

\* mutant of release(): no try/finally, so a failing os.remove skips the rest
CloseOnlyIfRemoved(removeExc) == removeExc = NoExc

\* release(): os.close runs in the finally of os.remove, whatever it raised
CloseAfterRemove(removeExc) == TRUE

\* mutant of release(): the first error wins
ReleaseRaisesFirst(removeExc, closeExc) ==
    IF removeExc # NoExc THEN removeExc ELSE closeExc

\* release(): the exception that leaves the nested try/finally
ReleaseRaises(removeExc, closeExc) ==
    IF closeExc # NoExc THEN closeExc ELSE removeExc

\* mutant of release(): the descriptor is closed before the path is unlinked
ReleaseStepsCloseFirst == <<"r_close", "r_remove">>

\* release(): os.remove in the outer try, os.close in its finally clause
ReleaseSteps == <<"r_remove", "r_close">>

\* where release() stands after the step at
AfterStep(at) == IF at = ReleaseSteps[1] THEN ReleaseSteps[2] ELSE "r_ret"

\* mutant of release(): self._fd keeps the closed descriptor
KeepFd(sfd) == sfd

\* release(): finally: self._fd = None
ClearFd(sfd) == NoFd

(* --------------------------- bookkeeping ------------------------------ *)

InCall(k) == pc[k] \notin {"idle", "w_body"}

\* between the successful return of acquire() and the start of release()
Held(i) == self_fd[i] # NoFd /\ pc[i] \in {"idle", "w_body"}

OthersQuiet(i) ==
    \A k \in Insts \ {i} : pc[k] = "idle" /\ self_fd[k] = NoFd

Rivals(i) == {a \in Insts : procOf[a] # procOf[i] /\ Held(a)}

\* what a call of instance i that begins now sees
EnvOf(i) ==
    IF OthersQuiet(i) THEN Quiet(path)
    ELSE IF Rivals(i) # {} THEN HeldBy(CHOOSE a \in Rivals(i) : TRUE)
    ELSE Busy

\* env after a step of instance i that leaves it in the held state or in
\* a call: no other call under way is quiet any longer
EnvStep(i) ==
    [k \in Insts |->
        IF k # i /\ InCall(k) /\ env[k][1] = "quiet" THEN Busy ELSE env[k]]

\* env after the step by which instance a leaves the held state
EnvLeave(a) ==
    [k \in Insts |->
        IF k # a /\ InCall(k) /\ (env[k][1] = "quiet" \/ env[k] = HeldBy(a))
        THEN Busy ELSE env[k]]

\* moved after a step, of instance by or of a third party (by = 0), that
\* may have changed what the path names
MovedBy(by) ==
    [k \in Insts |->
        IF k # by /\ pc[k] \in {"a_lock", "a_stat"} /\ path' # path
        THEN TRUE ELSE moved[k]]

(* ------------------------------- Init --------------------------------- *)

\* __init__: self._fd = None, self._path = path; no file system call.
\* po tells which process constructed which instance.
InitIn(po) ==
    /\ path = NoFile
    /\ lockOwner = [n \in Inodes |-> NoProc]
    /\ fdtab = [p \in Procs |-> [d \in Fds |-> NoFile]]
    /\ procOf = po
    /\ self_path = [i \in Insts |-> LockPath]
    /\ self_fd = [i \in Insts |-> NoFd]
    /\ pc = [i \in Insts |-> "idle"]
    /\ ctx = [i \in Insts |-> "none"]
    /\ fd = [i \in Insts |-> NoFd]
    /\ stat1 = [i \in Insts |-> NoStat]
    /\ exc = [i \in Insts |-> NoExc]
    /\ bodyExc = [i \in Insts |-> NoExc]
    /\ failed = [i \in Insts |-> {}]
    /\ env = [i \in Insts |-> Busy]
    /\ moved = [i \in Insts |-> FALSE]

\* every process constructs one instance
InitLock == InitIn([i \in Insts |-> i])

Init == InitLock /\ scen = "off"

\* the first process constructs two instances, every other process one
InitSame == InitIn([i \in Insts |-> IF i <= 2 THEN 1 ELSE i - 1]) /\ scen = "off"

(* ------------------------- observed scenarios ------------------------- *)

\* The scenarios of the test plan, followed by an observer that only
\* watches calls return.  Instance 1 is process A, instance 2 process B.
\*   trip:  A acquires; B is refused while A holds; A releases; B acquires;
\*          B releases; B acquires again.
\*   stale: A acquires; A's process terminates while holding; B acquires on
\*          the file left behind.
\*   again: A acquires; A calls acquire() again while it holds.
ScenAfter(i, ev) ==
    CASE scen = "trip" /\ i = 1 /\ ev = "acquired" -> "trip_A_holds"
      [] scen = "trip_A_holds" /\ i = 2 /\ ev = "refused" /\ env[i] = HeldBy(1)
            -> "trip_B_refused"
      [] scen = "trip_B_refused" /\ i = 1 /\ ev = "released" -> "trip_A_released"
      [] scen = "trip_A_released" /\ i = 2 /\ ev = "acquired" /\ env[i][1] = "quiet"
            -> "trip_B_holds"
      [] scen = "trip_B_holds" /\ i = 2 /\ ev = "released" -> "trip_B_released"
      [] scen = "trip_B_released" /\ i = 2 /\ ev = "acquired" /\ env[i][1] = "quiet"
            -> "trip_B_again"
      [] scen = "stale" /\ i = 1 /\ ev = "acquired" -> "stale_A_holds"
      [] scen = "stale_A_holds" /\ i = 1 /\ ev = "terminated" -> "stale_A_gone"
      [] scen = "stale_A_gone" /\ i = 2 /\ ev = "acquired"
            /\ env[i][1] = "quiet" /\ env[i][2] # NoFile -> "stale_B_holds"
      [] scen = "again" /\ i = 1 /\ ev = "acquired" -> "again_A_holds"
      [] scen = "again_A_holds" /\ i = 1 /\ ev = "returned at once" -> "again_A_twice"
      [] scen = "again_A_holds" /\ i = 1 /\ ev \in {"released", "failed", "terminated"}
            -> "again"
      [] OTHER -> scen

(* ------------------------------ acquire ------------------------------- *)

\* A caller starts acquire(), directly or as __enter__ of a with statement.
\* The loop condition is tested; on an instance that is already locked the
\* loop body never runs and the call returns at once, without a system call.
Begin(i, mode) ==
    /\ pc[i] = "idle"
    /\ IF WhileCond(self_fd[i])
       THEN /\ pc' = [pc EXCEPT ![i] = "a_open"]
            /\ ctx' = [ctx EXCEPT ![i] = mode]
            /\ env' = [EnvStep(i) EXCEPT ![i] = EnvOf(i)]
            /\ UNCHANGED scen
       ELSE /\ pc' = [pc EXCEPT ![i] = IF mode = "with" THEN "w_body" ELSE "idle"]
            /\ ctx' = [ctx EXCEPT ![i] = IF mode = "with" THEN "with" ELSE "none"]
            /\ env' = EnvStep(i)
            /\ scen' = ScenAfter(i, "returned at once")
    /\ UNCHANGED <<moved, path, lockOwner, fdtab, procOf, self_path, self_fd, fd,
                   stat1, exc, bodyExc, failed>>

\* acquire()
Acquire(i) == Begin(i, "direct")

\* __enter__: self.acquire()
Enter(i) == Begin(i, "with")

\* fd = os.open(self._path, os.O_CREAT | os.O_WRONLY, 0666): outside the try,
\* so an error leaves acquire() without passing the finally clause.
OpenFails(i, e) ==
    /\ exc' = [exc EXCEPT ![i] = OSError(e, "open")]
    /\ failed' = [failed EXCEPT ![i] = @ \cup {<<"open", e>>}]
    /\ pc' = [pc EXCEPT ![i] = "a_ret"]
    /\ UNCHANGED <<path, fdtab, fd>>

OpenOk(i, n) ==
    /\ path' = n
    /\ fdtab' = [fdtab EXCEPT ![procOf[i]][LowestFree(procOf[i])] = n]
    /\ fd' = [fd EXCEPT ![i] = LowestFree(procOf[i])]
    /\ pc' = [pc EXCEPT ![i] = "a_lock"]
    /\ UNCHANGED <<exc, failed>>

Open(i) ==
    /\ pc[i] = "a_open"
    /\ IF OpenFds(procOf[i]) = Fds
       THEN OpenFails(i, "EMFILE")
       ELSE IF path # NoFile /\ {"O_CREAT", "O_EXCL"} \subseteq OpenFlags
       THEN OpenFails(i, "EEXIST")
       ELSE IF path = NoFile /\ "O_CREAT" \notin OpenFlags
       THEN OpenFails(i, "ENOENT")
       ELSE \/ \E e \in OpenErrnos : OpenFails(i, e)
            \/ OpenOk(i, IF path # NoFile THEN path ELSE NewInode)
    /\ env' = EnvStep(i)
    /\ UNCHANGED <<scen, lockOwner, procOf, self_path, self_fd, ctx, stat1, bodyExc>>
    /\ moved' = [MovedBy(i) EXCEPT ![i] = FALSE]

\* fcntl.lockf(fd, fcntl.LOCK_EX | fcntl.LOCK_NB) and its except clause
LockFails(i, e) ==
    /\ exc' = [exc EXCEPT ![i] = LockfHandler(e)]
    /\ failed' = [failed EXCEPT ![i] = @ \cup {<<"lockf", e>>}]
    /\ pc' = [pc EXCEPT ![i] = "a_finally"]
    /\ UNCHANGED lockOwner

Lock(i) ==
    /\ pc[i] = "a_lock"
    /\ IF LockfConflict(lockOwner[FileOf(procOf[i], fd[i])], procOf[i])
       THEN \E e \in ContentionErrnos : LockFails(i, e)
       ELSE \/ \E e \in LockErrnos : LockFails(i, e)
            \/ /\ lockOwner' = [lockOwner EXCEPT
                                  ![FileOf(procOf[i], fd[i])] = procOf[i]]
               /\ pc' = [pc EXCEPT ![i] = "a_stat"]
               /\ UNCHANGED <<exc, failed>>
    /\ env' = EnvStep(i)
    /\ UNCHANGED <<moved, scen, path, fdtab, procOf, self_path, self_fd, ctx, fd, stat1,
                   bodyExc>>

StatFails(i, e) ==
    /\ exc' = [exc EXCEPT ![i] = StatHandler(e)]
    /\ failed' = [failed EXCEPT ![i] = @ \cup {<<"stat", e>>}]
    /\ pc' = [pc EXCEPT ![i] = "a_finally"]
    /\ UNCHANGED stat1

\* stat1 = os.stat(self._path) and its except clause
Stat(i) ==
    /\ pc[i] = "a_stat"
    /\ IF path = NoFile
       THEN StatFails(i, "ENOENT")
       ELSE \/ \E e \in StatErrnos : StatFails(i, e)
            \/ /\ stat1' = [stat1 EXCEPT ![i] = StatOf(path)]
               /\ pc' = [pc EXCEPT ![i] = "a_fstat"]
               /\ UNCHANGED <<exc, failed>>
    /\ env' = EnvStep(i)
    /\ UNCHANGED <<moved, scen, path, lockOwner, fdtab, procOf, self_path, self_fd, ctx,
                   fd, bodyExc>>

\* else: stat2 = os.fstat(fd); if _is_same_file(stat1, stat2): self._fd = fd
Fstat(i) ==
    /\ pc[i] = "a_fstat"
    /\ self_fd' = [self_fd EXCEPT ![i] =
                      IF _is_same_file(stat1[i], StatOf(FileOf(procOf[i], fd[i])))
                      THEN fd[i] ELSE @]
    /\ pc' = [pc EXCEPT ![i] = "a_finally"]
    /\ env' = EnvStep(i)
    /\ UNCHANGED <<moved, scen, path, lockOwner, fdtab, procOf, self_path, ctx, fd, stat1,
                   exc, bodyExc, failed>>

\* finally: if self._fd is None: os.close(fd); then the exception in flight
\* leaves acquire(), or the loop condition is tested again.
Finally(i) ==
    /\ pc[i] = "a_finally"
    /\ IF FinallyCloses(self_fd[i])
       THEN /\ fdtab' = FdtabAfterClose(procOf[i], fd[i])
            /\ lockOwner' = LocksAfterClose(procOf[i], fd[i])
       ELSE UNCHANGED <<fdtab, lockOwner>>
    /\ fd' = [fd EXCEPT ![i] = NoFd]
    /\ stat1' = [stat1 EXCEPT ![i] = NoStat]
    /\ IF exc[i] = NoExc /\ WhileCond(self_fd[i])
       THEN /\ pc' = [pc EXCEPT ![i] = "a_open"]
            /\ failed' = [failed EXCEPT ![i] = {}]
       ELSE /\ pc' = [pc EXCEPT ![i] = "a_ret"]
            /\ UNCHANGED failed
    /\ env' = EnvStep(i)
    /\ UNCHANGED <<scen, path, procOf, self_path, self_fd, ctx, exc, bodyExc>>
    /\ moved' = [moved EXCEPT ![i] = FALSE]

\* acquire() returns or raises exc[i]: to the caller, or into the guarded
\* block of the with statement (__exit__ is not run when __enter__ raised).
AcquireReturn(i) ==
    /\ pc[i] = "a_ret"
    /\ pc' = [pc EXCEPT ![i] =
                 IF ctx[i] = "with" THEN AfterEnter(exc[i]) ELSE "idle"]
    /\ ctx' = [ctx EXCEPT ![i] =
                  IF ctx[i] = "with" /\ AfterEnter(exc[i]) # "idle"
                  THEN "with" ELSE "none"]
    /\ exc' = [exc EXCEPT ![i] = NoExc]
    /\ failed' = [failed EXCEPT ![i] = {}]
    /\ env' = [EnvStep(i) EXCEPT ![i] = Busy]
    /\ scen' = ScenAfter(i, IF exc[i] = NoExc THEN "acquired"
                            ELSE IF exc[i] = LockError THEN "refused"
                            ELSE "failed")
    /\ UNCHANGED <<moved, path, lockOwner, fdtab, procOf, self_path, self_fd, fd,
                   stat1, bodyExc>>

(* ------------------------------ release ------------------------------- *)

\* A caller that holds the lock starts release().
Release(i) ==
    /\ pc[i] = "idle"
    /\ self_fd[i] # NoFd
    /\ pc' = [pc EXCEPT ![i] = ReleaseSteps[1]]
    /\ ctx' = [ctx EXCEPT ![i] = "direct"]
    /\ env' = [EnvLeave(i) EXCEPT ![i] = EnvOf(i)]
    /\ UNCHANGED <<moved, scen, path, lockOwner, fdtab, procOf, self_path, self_fd, fd,
                   stat1, exc, bodyExc, failed>>

\* A caller starts release() on an instance that holds no lock: nothing in
\* release() tests self._fd before os.remove(self._path).
ReleaseUnlocked(i) ==
    /\ pc[i] = "idle"
    /\ self_fd[i] = NoFd
    /\ pc' = [pc EXCEPT ![i] = ReleaseSteps[1]]
    /\ ctx' = [ctx EXCEPT ![i] = "direct"]
    /\ env' = [EnvStep(i) EXCEPT ![i] = EnvOf(i)]
    /\ UNCHANGED <<moved, scen, path, lockOwner, fdtab, procOf, self_path, self_fd, fd,
                   stat1, exc, bodyExc, failed>>

\* The guarded block of a with statement ends, normally or with an error,
\* and __exit__ runs.
Body(i) ==
    /\ pc[i] = "w_body"
    /\ \E e \in {NoExc, BodyError} :
          /\ bodyExc' = [bodyExc EXCEPT ![i] = e]
          /\ IF ExitReleases(e)
             THEN /\ pc' = [pc EXCEPT ![i] = ReleaseSteps[1]]
                  /\ env' = [EnvLeave(i) EXCEPT ![i] = EnvOf(i)]
             ELSE /\ pc' = [pc EXCEPT ![i] = "r_ret"]
                  /\ env' = [EnvStep(i) EXCEPT ![i] = EnvOf(i)]
    /\ UNCHANGED <<moved, scen, path, lockOwner, fdtab, procOf, self_path, self_fd, ctx,
                   fd, stat1, exc, failed>>

\* after os.remove raised e (NoExc: it did not): on to the finally clause
AfterRemove(i, e) ==
    /\ exc' = [exc EXCEPT ![i] = e]
    /\ pc' = [pc EXCEPT ![i] =
                 IF CloseAfterRemove(e) THEN AfterStep("r_remove") ELSE "r_ret"]

RemoveFails(i, e) ==
    /\ failed' = [failed EXCEPT ![i] = @ \cup {<<"remove", e>>}]
    /\ AfterRemove(i, OSError(e, "remove"))
    /\ UNCHANGED path

\* try: os.remove(self._path)
Remove(i) ==
    /\ pc[i] = "r_remove"
    /\ IF path = NoFile
       THEN RemoveFails(i, "ENOENT")
       ELSE \/ \E e \in RemoveErrnos : RemoveFails(i, e)
            \/ /\ path' = NoFile
               /\ AfterRemove(i, NoExc)
               /\ UNCHANGED failed
    /\ env' = EnvStep(i)
    /\ UNCHANGED <<scen, lockOwner, fdtab, procOf, self_path, self_fd, ctx, fd,
                   stat1, bodyExc>>
    /\ moved' = MovedBy(i)

\* after os.close raised e (NoExc: it did not): the inner finally clears
\* self._fd and the exception, if any, leaves release()
AfterClose(i, e) ==
    /\ self_fd' = [self_fd EXCEPT ![i] = ClearFd(@)]
    /\ exc' = [exc EXCEPT ![i] = ReleaseRaises(exc[i], e)]
    /\ pc' = [pc EXCEPT ![i] = AfterStep("r_close")]

CloseFails(i, e) ==
    /\ failed' = [failed EXCEPT ![i] = @ \cup {<<"close", e>>}]
    /\ AfterClose(i, OSError(e, "close"))

\* finally: try: os.close(self._fd) finally: self._fd = None
Close(i) ==
    /\ pc[i] = "r_close"
    /\ fdtab' = FdtabAfterClose(procOf[i], self_fd[i])
    /\ lockOwner' = LocksAfterClose(procOf[i], self_fd[i])
    /\ IF self_fd[i] = NoFd
       THEN /\ failed' = [failed EXCEPT ![i] = @ \cup {<<"close", "TypeError">>}]
            /\ AfterClose(i, TypeError("close"))
       ELSE \/ \E e \in CloseErrnos : CloseFails(i, e)
            \/ /\ AfterClose(i, NoExc)
               /\ UNCHANGED failed
    /\ env' = EnvStep(i)
    /\ UNCHANGED <<moved, scen, path, procOf, self_path, ctx, fd, stat1, bodyExc>>

\* the exception that leaves release(), or the with statement after __exit__
\* (which returns None, so an error of the guarded block goes on)
Leaving(i) ==
    IF exc[i] # NoExc THEN exc[i]
    ELSE IF ctx[i] = "with" THEN bodyExc[i] ELSE NoExc

\* release() returns or raises to the caller
ReleaseReturn(i) ==
    /\ pc[i] = "r_ret"
    /\ pc' = [pc EXCEPT ![i] = "idle"]
    /\ ctx' = [ctx EXCEPT ![i] = "none"]
    /\ exc' = [exc EXCEPT ![i] = NoExc]
    /\ bodyExc' = [bodyExc EXCEPT ![i] = NoExc]
    /\ failed' = [failed EXCEPT ![i] = {}]
    /\ env' = [EnvStep(i) EXCEPT ![i] = Busy]
    /\ scen' = ScenAfter(i, IF exc[i] = NoExc /\ self_fd[i] = NoFd
                            THEN "released" ELSE "failed")
    /\ UNCHANGED <<moved, path, lockOwner, fdtab, procOf, self_path, self_fd, fd,
                   stat1>>

(* ---------------------------- environment ----------------------------- *)

InstsOf(p) == {i \in Insts : procOf[i] = p}

\* Process p terminates without calling release(): the kernel closes its
\* descriptors, which drops its record locks; the file stays.  The instance
\* starts afresh in a new process.
Crash(p) ==
    /\ \E i \in InstsOf(p) : pc[i] # "idle" \/ self_fd[i] # NoFd
    /\ fdtab' = [fdtab EXCEPT ![p] = [d \in Fds |-> NoFile]]
    /\ lockOwner' = [n \in Inodes |-> IF lockOwner[n] = p THEN NoProc ELSE lockOwner[n]]
    /\ self_fd' = [i \in Insts |-> IF procOf[i] = p THEN NoFd ELSE self_fd[i]]
    /\ pc' = [i \in Insts |-> IF procOf[i] = p THEN "idle" ELSE pc[i]]
    /\ ctx' = [i \in Insts |-> IF procOf[i] = p THEN "none" ELSE ctx[i]]
    /\ fd' = [i \in Insts |-> IF procOf[i] = p THEN NoFd ELSE fd[i]]
    /\ stat1' = [i \in Insts |-> IF procOf[i] = p THEN NoStat ELSE stat1[i]]
    /\ exc' = [i \in Insts |-> IF procOf[i] = p THEN NoExc ELSE exc[i]]
    /\ bodyExc' = [i \in Insts |-> IF procOf[i] = p THEN NoExc ELSE bodyExc[i]]
    /\ failed' = [i \in Insts |-> IF procOf[i] = p THEN {} ELSE failed[i]]
    /\ env' = [i \in Insts |->
                  IF procOf[i] = p THEN Busy
                  ELSE IF InCall(i) /\ (env[i][1] = "quiet" \/
                                        (env[i][1] = "held" /\ env[i][2] \in InstsOf(p)))
                       THEN Busy ELSE env[i]]
    /\ scen' = IF \E i \in InstsOf(p) : Held(i)
               THEN ScenAfter(CHOOSE i \in InstsOf(p) : Held(i), "terminated")
               ELSE scen
    /\ UNCHANGED <<path, procOf, self_path>>
    /\ moved' = [i \in Insts |-> IF procOf[i] = p THEN FALSE ELSE moved[i]]

EnvThird ==
    [k \in Insts |-> IF InCall(k) /\ env[k][1] = "quiet" THEN Busy ELSE env[k]]

\* A third party, which takes no lock, unlinks the path ...
ThirdUnlink ==
    /\ path # NoFile
    /\ path' = NoFile
    /\ env' = EnvThird
    /\ UNCHANGED <<scen, lockOwner, fdtab, procOf, self_path, self_fd, pc, ctx, fd,
                   stat1, exc, bodyExc, failed>>
    /\ moved' = MovedBy(0)

\* ... or creates a file at it.
ThirdCreate ==
    /\ path = NoFile
    /\ path' = NewInode
    /\ env' = EnvThird
    /\ UNCHANGED <<scen, lockOwner, fdtab, procOf, self_path, self_fd, pc, ctx, fd,
                   stat1, exc, bodyExc, failed>>
    /\ moved' = MovedBy(0)

(* --------------------------- specifications --------------------------- *)

\* the steps of acquire() and release(), whoever called them
Steps ==
    \/ \E i \in Insts : Open(i)
    \/ \E i \in Insts : Lock(i)
    \/ \E i \in Insts : Stat(i)
    \/ \E i \in Insts : Fstat(i)
    \/ \E i \in Insts : Finally(i)
    \/ \E i \in Insts : AcquireReturn(i)
    \/ \E i \in Insts : Remove(i)
    \/ \E i \in Insts : Close(i)
    \/ \E i \in Insts : ReleaseReturn(i)

\* cooperating processes that call acquire() and release() directly, and
\* may terminate at any point
Next ==
    \/ \E i \in Insts : Acquire(i)
    \/ \E i \in Insts : Release(i)
    \/ Steps
    \/ \E p \in Procs : Crash(p)

Spec == Init /\ [][Next]_vars

\* cooperating processes that use the lock as a context manager
NextWith ==
    \/ \E i \in Insts : Enter(i)
    \/ \E i \in Insts : Body(i)
    \/ Steps
    \/ \E p \in Procs : Crash(p)

SpecWith == Init /\ [][NextWith]_vars

\* cooperating processes and a third party that unlinks and recreates the file
NextThird ==
    \/ \E i \in Insts : Acquire(i)
    \/ \E i \in Insts : Release(i)
    \/ Steps
    \/ ThirdUnlink
    \/ ThirdCreate

SpecThird == Init /\ [][NextThird]_vars

\* the steps of a call of acquire() by instance i that is under way
AcquireStep(i) ==
    \/ Open(i) \/ Lock(i) \/ Stat(i) \/ Fstat(i) \/ Finally(i) \/ AcquireReturn(i)

\* processes that call acquire(), and a third party that unlinks and
\* recreates the file
NextFair ==
    \/ \E i \in Insts : Acquire(i)
    \/ \E i \in Insts : AcquireStep(i)
    \/ ThirdUnlink
    \/ ThirdCreate

\* a process that keeps being scheduled goes on with the system call its
\* acquire() has reached
SpecFair == Init /\ [][NextFair]_vars /\ \A i \in Insts : WF_vars(AcquireStep(i))

\* processes that also call release() on an instance that is not locked
NextMisuse ==
    \/ \E i \in Insts : Acquire(i)
    \/ \E i \in Insts : Release(i)
    \/ \E i \in Insts : ReleaseUnlocked(i)
    \/ Steps

SpecMisuse == Init /\ [][NextMisuse]_vars

\* two instances for the path inside one process, whose calls interleave
NextSame ==
    \/ \E i \in Insts : Acquire(i)
    \/ \E i \in Insts : Release(i)
    \/ Steps

SpecSame == InitSame /\ [][NextSame]_vars

\* Spec with the observer of the acquire/release/acquire scenario
InitTrip == InitLock /\ scen = "trip"

SpecTrip == InitTrip /\ [][Next]_vars

\* Spec with the observer of the repeated acquire() scenario
InitAgain == InitLock /\ scen = "again"

SpecAgain == InitAgain /\ [][Next]_vars

\* Spec with the observer of the stale lock file scenario
InitStale == InitLock /\ scen = "stale"

SpecStale == InitStale /\ [][Next]_vars

(* ------------------------------- claims ------------------------------ *)

\* C1: mutual exclusion.  Under every interleaving of the system calls of
\* acquire() and release() run by processes that release only what they
\* acquired, at most one process at a time is in the held state (after the
\* successful return of its acquire(), before the start of its release()).
C1_MutualExclusion ==
    \A i \in Insts : \A j \in Insts :
        (procOf[i] # procOf[j] /\ Held(i)) => ~Held(j)

\* C1's case: one process holds the lock while another has locked the
\* unlinked file of an earlier holder and is about to compare identities.
C1_Witness ==
    \E i \in Insts : \E j \in Insts :
        /\ procOf[i] # procOf[j]
        /\ Held(i)
        /\ pc[j] = "a_fstat"
        /\ lockOwner[FileOf(procOf[j], fd[j])] = procOf[j]
        /\ stat1[j].st_ino # FileOf(procOf[j], fd[j])

\* C2: contention is a terminal failure that changes nothing.  While
\* instance a of another process holds the lock during the whole acquire()
\* of b, b never gets past its first lock attempt: that attempt raises
\* LockError (the call ends without it only when its open fails before),
\* the loop is never restarted, b is left unlocked with no descriptor open,
\* and no step of b changes a's handle, a's descriptor, a's record lock or
\* the file the path names.
C2_Refused(b) ==
    env[b][1] = "held" =>
        /\ Held(env[b][2])
        /\ pc[b] \in {"a_open", "a_lock", "a_finally", "a_ret"}
        /\ pc[b] \in {"a_finally", "a_ret"} =>
              /\ exc[b] # NoExc
              /\ self_fd[b] = NoFd
        /\ pc[b] = "a_finally" => exc[b] = LockError
        /\ pc[b] = "a_ret" =>
              /\ \/ exc[b] = LockError
                 \/ \E e \in OpenErrnos :
                       exc[b] = OSError(e, "open") /\ <<"open", e>> \in failed[b]
              /\ OpenFds(procOf[b]) = {}

C2_HolderUntouched ==
    \A b \in Insts :
        (env[b][1] = "held" /\ InCall(b) /\ pc'[b] # pc[b]) =>
            LET a == env[b][2]
                pa == procOf[env[b][2]]
                n == FileOf(procOf[env[b][2]], self_fd[env[b][2]])
            IN  /\ lockOwner[n] = pa
                /\ path = n
                /\ self_fd'[a] = self_fd[a]
                /\ fdtab'[pa] = fdtab[pa]
                /\ lockOwner'[n] = lockOwner[n]
                /\ path' = path

C3_NeverStaleOnReturn ==
    [][\A i \in Insts :
          (pc[i] = "a_finally" /\ pc'[i] = "a_ret" /\ exc[i] = NoExc
              /\ self_fd[i] # NoFd)
          => path' = fdtab'[procOf[i]][self_fd'[i]]]_vars

\* C3 as amended: acquire() stores a handle only when its (device, inode)
\* equals what os.stat reported for the path in the same iteration, after
\* the record lock was taken on it; it ends either with such a handle, open
\* and locked, or with LockError or the error of a system call that failed,
\* and then with no handle.  (A third party that unlinks the path after that
\* os.stat still leaves the returned handle on another file than the path.)
C3_Validated(i) ==
    /\ (pc[i] = "a_finally" /\ self_fd[i] # NoFd) =>
          /\ self_fd[i] = fd[i]
          /\ stat1[i] = StatOf(FileOf(procOf[i], self_fd[i]))
          /\ lockOwner[FileOf(procOf[i], self_fd[i])] = procOf[i]
    /\ pc[i] = "a_ret" =>
          \/ /\ exc[i] = NoExc
             /\ self_fd[i] # NoFd
             /\ FileOf(procOf[i], self_fd[i]) # NoFile
             /\ lockOwner[FileOf(procOf[i], self_fd[i])] = procOf[i]
          \/ /\ exc[i] # NoExc
             /\ self_fd[i] = NoFd
             /\ \E f \in failed[i] :
                   exc[i] \in {LockError, OSError(f[2], f[1]), IOError(f[2], f[1])}

C3_StatReadsPath ==
    \A i \in Insts :
        (pc[i] = "a_stat" /\ pc'[i] = "a_fstat") => stat1'[i] = StatOf(path)

C3_HandleMatchesStat ==
    /\ [](\A i \in Insts : C3_Validated(i))
    /\ [][C3_StatReadsPath]_vars

\* C3's case: acquire() is returning success on a handle that matched the
\* path at its os.stat, after which a third party changed the path.
C3_Witness ==
    \E i \in Insts :
        /\ pc[i] = "a_ret"
        /\ exc[i] = NoExc
        /\ self_fd[i] # NoFd
        /\ path # FileOf(procOf[i], self_fd[i])

\* C4: no descriptor leak.  The only descriptors a process has open are the
\* local fd of the iteration under way and the instance's handle; none is
\* open when the loop starts an iteration or when acquire() raises, and
\* exactly the handle is open when acquire() returns.
C4_NoDescriptorLeak ==
    \A i \in Insts :
        /\ OpenFds(procOf[i]) = {fd[i], self_fd[i]} \ {NoFd}
        /\ pc[i] = "a_open" => OpenFds(procOf[i]) = {}
        /\ pc[i] = "a_ret" =>
              IF exc[i] = NoExc
              THEN self_fd[i] # NoFd /\ OpenFds(procOf[i]) = {self_fd[i]}
              ELSE OpenFds(procOf[i]) = {}

\* C4's case: the identity check has failed, and the finally clause is
\* about to close the candidate descriptor before the loop goes on.
C4_Witness ==
    \E i \in Insts :
        /\ pc[i] = "a_finally"
        /\ exc[i] = NoExc
        /\ self_fd[i] = NoFd
        /\ stat1[i] # NoStat
        /\ fd[i] \in OpenFds(procOf[i])

\* C5 as stated: release() after a successful acquire() leaves no lock file
\* of the releaser at the path and leaves the instance unlocked, the handle
\* closed, even if the deletion step fails.
C5_NoFileEvenIfDeleteFails ==
    [][\A i \in Insts :
          (pc[i] = "r_close" /\ pc'[i] = "r_ret" /\ self_fd[i] # NoFd)
          => /\ path' # fdtab[procOf[i]][self_fd[i]]
             /\ self_fd'[i] = NoFd
             /\ fdtab'[procOf[i]][self_fd[i]] = NoFile]_vars

\* C5 as amended: release() after a successful acquire() leaves the instance
\* unlocked, its handle closed and its record lock dropped, even if the
\* deletion step fails; the released file is no longer at the path when the
\* deletion step succeeded or failed because the path did not exist.
C5_Unlocked(i) ==
    pc[i] = "r_ret" =>
        /\ self_fd[i] = NoFd
        /\ OpenFds(procOf[i]) = {}
        /\ \A n \in Inodes : lockOwner[n] # procOf[i]

C5_FileGone ==
    \A i \in Insts :
        (pc[i] = "r_close" /\ pc'[i] = "r_ret" /\ self_fd[i] # NoFd
            /\ \A f \in failed[i] : f[1] = "remove" => f[2] = "ENOENT")
        => path' # fdtab[procOf[i]][self_fd[i]]

C5_ReleaseUnlocks ==
    /\ [](\A i \in Insts : C5_Unlocked(i))
    /\ [][C5_FileGone]_vars

\* C5's case: the deletion step failed (the file had been removed by
\* someone else) and release() is returning.
C5_Witness ==
    \E i \in Insts :
        /\ pc[i] = "r_ret"
        /\ <<"remove", "ENOENT">> \in failed[i]
        /\ self_fd[i] = NoFd

\* C6: release() attempts both cleanup steps and suppresses no error.  For
\* every combination of failure of os.remove and os.close the descriptor is
\* released and the instance unlocked, release() raises iff a step failed,
\* and the error of os.close wins over the error of os.remove.
C6_ReleaseSurfacesLastError ==
    \A i \in Insts :
        pc[i] = "r_ret" =>
            LET rm == {f \in failed[i] : f[1] = "remove"}
                cl == {f \in failed[i] : f[1] = "close"}
            IN  /\ self_fd[i] = NoFd
                /\ OpenFds(procOf[i]) = {}
                /\ (exc[i] = NoExc) <=> (failed[i] = {})
                /\ cl # {} => \E f \in cl : exc[i] = OSError(f[2], "close")
                /\ (cl = {} /\ rm # {}) =>
                      \E f \in rm : exc[i] = OSError(f[2], "remove")

\* C6's case: both steps of release() have failed.
C6_Witness ==
    \E i \in Insts :
        /\ pc[i] = "r_ret"
        /\ \E f \in failed[i] : f[1] = "remove"
        /\ \E f \in failed[i] : f[1] = "close"

\* An acquire() during which every other instance stays idle and unlocked
\* meets no contention and no vanished path, never restarts its loop, and
\* fails only with an error that the environment injected.
QuietAcquire(i) ==
    /\ \A e \in ContentionErrnos : <<"lockf", e>> \notin failed[i]
    /\ <<"stat", "ENOENT">> \notin failed[i]
    /\ failed[i] \subseteq InjectedFaults
    /\ pc[i] = "a_finally" => (exc[i] # NoExc \/ self_fd[i] # NoFd)
    /\ (pc[i] = "a_ret" /\ failed[i] = {}) =>
          /\ exc[i] = NoExc
          /\ self_fd[i] # NoFd
          /\ path = FileOf(procOf[i], self_fd[i])
          /\ path # NoFile
          /\ lockOwner[path] = procOf[i]

AcquirePcs == {"a_open", "a_lock", "a_stat", "a_fstat", "a_finally", "a_ret"}

\* C7: the lock is reusable after a clean release.  When release() ends
\* without error and undisturbed, the path names no file and the process
\* keeps neither descriptor nor lock; an acquire() that starts on the free
\* path and is not disturbed succeeds, on a newly created file, whoever
\* makes it.
C7_ReusableAfterRelease ==
    \A i \in Insts :
        /\ (pc[i] = "r_ret" /\ env[i][1] = "quiet" /\ failed[i] = {}) =>
              /\ path = NoFile
              /\ self_fd[i] = NoFd
              /\ OpenFds(procOf[i]) = {}
              /\ \A n \in Inodes : lockOwner[n] # procOf[i]
        /\ (pc[i] \in AcquirePcs /\ env[i] = Quiet(NoFile)) => QuietAcquire(i)

\* C7's case: A acquired, B was refused while A held, A released, B
\* acquired, released and acquired again.
C7_Witness == scen = "trip_B_again" /\ Held(2)

\* C8: scoped acquisition guarantees release.  The guarded block is entered
\* only with the lock held; when the with statement is left after a
\* successful entry, with or without an error of the block, release() has
\* run: the instance is unlocked and its descriptor closed.
C8_ScopeReleases ==
    \A i \in Insts :
        /\ pc[i] = "w_body" =>
              /\ self_fd[i] # NoFd
              /\ FileOf(procOf[i], self_fd[i]) # NoFile
        /\ (ctx[i] = "with" /\ pc[i] = "r_ret") =>
              /\ self_fd[i] = NoFd
              /\ OpenFds(procOf[i]) = {}

\* C8's case: the guarded block raised, and the with statement is left.
C8_Witness ==
    \E i \in Insts :
        /\ ctx[i] = "with"
        /\ pc[i] = "r_ret"
        /\ bodyExc[i] = BodyError
        /\ self_fd[i] = NoFd

\* C9: a lock file that exists but is locked by no process blocks nobody.
\* An undisturbed acquire() that starts while the path names a file opens
\* that very file, meets no contention and succeeds on it.
C9_StaleFileDoesNotBlock ==
    \A i \in Insts : \A n \in Inodes :
        (pc[i] \in AcquirePcs /\ env[i] = Quiet(n)) =>
            /\ QuietAcquire(i)
            /\ path = n
            /\ fd[i] # NoFd => FileOf(procOf[i], fd[i]) = n
            /\ (pc[i] = "a_ret" /\ failed[i] = {}) =>
                  FileOf(procOf[i], self_fd[i]) = n

\* C9's case: A acquired, A's process terminated while holding, and B has
\* acquired the lock on the file left behind.
C9_Witness == scen = "stale_B_holds" /\ Held(2) /\ path = FileOf(procOf[2], self_fd[2])

\* C10: only contention becomes LockError.  The error of a failing os.open,
\* of fcntl.lockf with another errno than EACCES/EAGAIN, and of os.stat with
\* another errno than ENOENT leaves acquire() as it is, in the iteration in
\* which it happened, with the instance unlocked and no descriptor open.
C10_Propagates(i) ==
    pc[i] \in {"a_finally", "a_ret"} =>
        /\ (exc[i] = LockError) <=>
              (\E e \in ContentionErrnos : <<"lockf", e>> \in failed[i])
        /\ \A e \in OpenErrnos \cup {"EMFILE"} :
              <<"open", e>> \in failed[i] => exc[i] = OSError(e, "open")
        /\ \A e \in LockErrnos :
              <<"lockf", e>> \in failed[i] => exc[i] = IOError(e, "lockf")
        /\ \A e \in StatErrnos :
              <<"stat", e>> \in failed[i] => exc[i] = OSError(e, "stat")
        /\ exc[i] # NoExc => self_fd[i] = NoFd
        /\ (pc[i] = "a_ret" /\ exc[i] # NoExc) => OpenFds(procOf[i]) = {}

C10_NoRetry ==
    \A i \in Insts :
        (pc[i] = "a_finally" /\ failed[i] \cap InjectedFaults # {})
        => pc'[i] # "a_open"

C11_Raced(i) ==
    /\ pc[i] = "a_finally"
    /\ \/ <<"stat", "ENOENT">> \in failed[i]
       \/ stat1[i] \notin {NoStat, StatOf(FileOf(procOf[i], fd[i]))}

C11_RaceRaisesNothing ==
    \A i \in Insts :
        /\ C11_Raced(i) => (exc[i] = NoExc /\ self_fd[i] = NoFd)
        /\ pc[i] = "a_ret" =>
              \/ exc[i] = NoExc /\ self_fd[i] # NoFd
              \/ /\ exc[i] = LockError
                 /\ \E e \in ContentionErrnos : <<"lockf", e>> \in failed[i]
              \/ \E f \in failed[i] \ {<<"stat", "ENOENT">>} :
                    exc[i] \in {OSError(f[2], f[1]), IOError(f[2], f[1])}

C11_RaceRestartsLoop ==
    \A i \in Insts :
        (C11_Raced(i) /\ pc'[i] # pc[i]) =>
            /\ pc'[i] = "a_open"
            /\ fdtab'[procOf[i]][fd[i]] = NoFile
            /\ self_fd'[i] = NoFd
            /\ exc'[i] = NoExc

C12_Unlinked(i) ==
    (pc[i] = "r_close" /\ exc[i] = NoExc /\ self_fd[i] # NoFd) =>
        /\ path # FileOf(procOf[i], self_fd[i])
        /\ lockOwner[FileOf(procOf[i], self_fd[i])] = procOf[i]
        /\ \A j \in Insts \ {i} :
              self_fd[j] = NoFd
                 \/ FileOf(procOf[j], self_fd[j]) # FileOf(procOf[i], self_fd[i])

C12_UnlinkWhileLocked ==
    \A i \in Insts :
        (pc[i] = "r_remove" /\ path # NoFile /\ path' = NoFile) =>
            /\ self_fd'[i] # NoFd
            /\ fdtab'[procOf[i]][self_fd'[i]] # NoFile
            /\ lockOwner'[fdtab'[procOf[i]][self_fd'[i]]] = procOf[i]

C12_CloseAfterUnlink ==
    \A i \in Insts :
        (pc[i] = "r_close" /\ pc'[i] # pc[i] /\ exc[i] = NoExc /\ self_fd[i] # NoFd)
        => path' # fdtab[procOf[i]][self_fd[i]]

C12_StoresLinkedFile ==
    \A j \in Insts :
        (self_fd[j] = NoFd /\ self_fd'[j] # NoFd) =>
            path' = fdtab'[procOf[j]][self_fd'[j]]

C12_UnlinkBeforeClose ==
    /\ [](\A i \in Insts : C12_Unlinked(i))
    /\ [][C12_UnlinkWhileLocked /\ C12_CloseAfterUnlink /\ C12_StoresLinkedFile]_vars

\* C12's case: a release has unlinked its file and not yet closed it, while
\* another process has that file open from before and the path already
\* names a new file.
C12_Witness ==
    \E i \in Insts : \E j \in Insts :
        /\ i # j
        /\ pc[i] = "r_close"
        /\ exc[i] = NoExc
        /\ fd[j] # NoFd
        /\ FileOf(procOf[j], fd[j]) = FileOf(procOf[i], self_fd[i])

\* C13: lifecycle frame.  A new LockFile is unlocked and nothing exists in
\* the file system on its account; self._fd changes from None to a
\* descriptor only at the identity check of acquire(), to the descriptor
\* that was opened, locked and found to be the file os.stat saw, and changes
\* back to None only at the close step of release(); self._path never
\* changes; and a step that changes the handle of an instance is a step of
\* that instance, which changes no other handle.
C13_Constructed ==
    /\ path = NoFile
    /\ \A i \in Insts : self_fd[i] = NoFd /\ pc[i] = "idle"
    /\ \A p \in Procs : OpenFds(p) = {}
    /\ \A n \in Inodes : lockOwner[n] = NoProc

C13_Locks(i) ==
    /\ self_fd[i] = NoFd
    /\ pc[i] = "a_fstat" /\ pc'[i] = "a_finally"
    /\ self_fd'[i] = fd[i]
    /\ fdtab[procOf[i]][fd[i]] # NoFile
    /\ stat1[i] = [st_dev |-> Dev, st_ino |-> fdtab[procOf[i]][fd[i]]]

C13_Unlocks(i) ==
    /\ self_fd'[i] = NoFd
    /\ pc[i] = "r_close" /\ pc'[i] = "r_ret"

C13_HandleFrame ==
    \A i \in Insts :
        self_fd'[i] # self_fd[i] =>
            /\ C13_Locks(i) \/ C13_Unlocks(i)
            /\ \A j \in Insts \ {i} : self_fd'[j] = self_fd[j] /\ pc'[j] = pc[j]

C13_LifecycleFrame ==
    /\ C13_Constructed
    /\ [](\A i \in Insts : self_path[i] = LockPath)
    /\ [][C13_HandleFrame /\ self_path' = self_path]_vars

\* C13's case: the identity check of one instance has just stored its
\* handle while another instance, unlocked, is in the middle of a call.
C13_Witness ==
    \E i \in Insts : \E j \in Insts \ {i} :
        /\ pc[i] = "a_finally"
        /\ self_fd[i] # NoFd
        /\ self_fd[i] = fd[i]
        /\ self_fd[j] = NoFd
        /\ pc[j] \in {"a_lock", "a_stat", "r_ret"}

\* instance a is in the held state and its process owns the lock on the
\* file a has as its handle; instance b of the same process is about to
\* lock that file
C14_SecondInstance(a, b) ==
    /\ a # b
    /\ procOf[a] = procOf[b]
    /\ Held(a)
    /\ lockOwner[FileOf(procOf[a], self_fd[a])] = procOf[a]
    /\ pc[b] = "a_lock"
    /\ FileOf(procOf[b], fd[b]) = FileOf(procOf[a], self_fd[a])

\* C14 as stated: the lock excludes per descriptor.  While one instance
\* holds the lock, the lock attempt of a second instance of the same process
\* is refused with LockError, and no close of a descriptor of the second
\* instance drops the lock held through the first.
C14_PerDescriptor ==
    [][\A a \in Insts : \A b \in Insts :
          /\ (C14_SecondInstance(a, b) /\ pc'[b] # pc[b]) => exc'[b] = LockError
          /\ (a # b /\ procOf[a] = procOf[b] /\ Held(a) /\ Held(a)'
                /\ lockOwner[FileOf(procOf[a], self_fd[a])] = procOf[a]
                /\ pc'[b] # pc[b])
             => lockOwner'[FileOf(procOf[a], self_fd[a])] = procOf[a]]_vars

\* C14 as amended: the lock excludes per process.  While one instance holds
\* the lock and its process owns it, the lock attempt of a second instance of the same process on
\* the same file is never refused for contention, so it never raises
\* LockError; and every close of a descriptor, in the finally clause of
\* acquire() or in release(), drops the lock of the process on that file,
\* also when another instance of the process has the file as its handle.
C14_NotRefused ==
    \A a \in Insts : \A b \in Insts :
        (C14_SecondInstance(a, b) /\ pc'[b] # pc[b]) =>
            /\ exc'[b] # LockError
            /\ \A e \in ContentionErrnos : <<"lockf", e>> \notin failed'[b]

C14_CloseDropsLock ==
    \A p \in Procs : \A d \in Fds :
        (fdtab[p][d] # NoFile /\ fdtab'[p][d] = NoFile) =>
            lockOwner'[fdtab[p][d]] # p

C14_PerProcess ==
    [][C14_NotRefused /\ C14_CloseDropsLock]_vars

\* C14's case: two instances of one process are both in the held state on
\* the same file.
C14_Witness ==
    \E a \in Insts : \E b \in Insts \ {a} :
        /\ procOf[a] = procOf[b]
        /\ Held(a) /\ Held(b)
        /\ FileOf(procOf[a], self_fd[a]) = FileOf(procOf[b], self_fd[b])

\* C15: holder invariant.  With cooperating processes only, whenever an
\* instance is in the held state, and until its release() has unlinked the
\* path, the path names a file, which is the file the instance has open as
\* its handle, and the process of the instance owns the lock on it; so the
\* delete step of release() unlinks the releaser's own locked file, never a
\* file that another process has locked.
C15_OwnsPath(i) ==
    /\ path # NoFile
    /\ path = FileOf(procOf[i], self_fd[i])
    /\ lockOwner[path] = procOf[i]

C15_Holder ==
    \A i \in Insts :
        (self_fd[i] # NoFd /\ pc[i] \in {"idle", "a_ret", "r_remove"}) => C15_OwnsPath(i)

C15_UnlinksOwnFile ==
    \A i \in Insts :
        (pc[i] = "r_remove" /\ pc'[i] # pc[i] /\ path' # path) =>
            /\ path = fdtab[procOf[i]][self_fd[i]]
            /\ lockOwner[path] = procOf[i]
            /\ path' = NoFile

C15_HolderInvariant ==
    /\ []C15_Holder
    /\ [][C15_UnlinksOwnFile]_vars

\* C15's case: an instance is in the held state on the file the path names
\* while another process is about to lock a file that was unlinked earlier.
C15_Witness ==
    \E i \in Insts : \E j \in Insts :
        /\ Held(i)
        /\ C15_OwnsPath(i)
        /\ procOf[j] # procOf[i]
        /\ pc[j] = "a_lock"
        /\ FileOf(procOf[j], fd[j]) # path

\* C16: release() on an instance that holds no handle cannot break mutual
\* exclusion.  Its delete step does not remove the file that an instance of
\* another process holds, and at most one process at a time is in the held
\* state.
C16_KeepsHeldFile ==
    \A i \in Insts : \A a \in Insts :
        (pc[i] = "r_remove" /\ self_fd[i] = NoFd /\ pc'[i] # pc[i]
            /\ procOf[a] # procOf[i] /\ Held(a)
            /\ path = FileOf(procOf[a], self_fd[a]))
        => path' = path

C16_OneHolder ==
    \A a \in Insts : \A b \in Insts :
        (Held(a) /\ Held(b)) => procOf[a] = procOf[b]

C16_UnlockedReleaseIsHarmless ==
    /\ []C16_OneHolder
    /\ [][C16_KeepsHeldFile]_vars

\* C17: acquire() on an instance whose handle is set returns at once.  The
\* loop body, with its os.open, fcntl.lockf and os.stat, only ever runs on
\* an instance whose handle is not set; the call of acquire() on a locked
\* instance is a single step that returns successfully and leaves the
\* handle, the descriptors, the locks and the path as they were; and
\* LockError is only ever raised with the handle not set.
C17_BodyOnlyUnlocked ==
    \A i \in Insts :
        /\ pc[i] \in {"a_open", "a_lock", "a_stat", "a_fstat"} => self_fd[i] = NoFd
        /\ (pc[i] \in {"a_finally", "a_ret"} /\ exc[i] # NoExc) => self_fd[i] = NoFd

C17_ReturnsAtOnce ==
    (scen = "again_A_holds" /\ scen' = "again_A_twice") =>
        /\ Held(1) /\ Held(1)'
        /\ self_fd' = self_fd
        /\ fdtab' = fdtab
        /\ lockOwner' = lockOwner
        /\ path' = path
        /\ pc' = pc
        /\ exc'[1] = NoExc
        /\ failed'[1] = {}

C17_LockedOnlyReleases ==
    \A i \in Insts :
        (pc[i] = "idle" /\ self_fd[i] # NoFd /\ pc'[i] # pc[i]) =>
            (pc'[i] = "r_remove" \/ self_fd'[i] = NoFd)

C17_AcquireOnLockedIsNoOp ==
    /\ []C17_BodyOnlyUnlocked
    /\ [][C17_ReturnsAtOnce /\ C17_LockedOnlyReleases]_vars

\* C17's case: A has called acquire() again while it held the lock, and
\* still holds it on the file the path names.
C17_Witness ==
    /\ scen = "again_A_twice"
    /\ Held(1)
    /\ path = FileOf(procOf[1], self_fd[1])
    /\ lockOwner[path] = procOf[1]

\* C18: a failed scope entry runs no exit step.  When acquire() raises
\* inside __enter__, the with statement is left at once: release() is not
\* started, the path, the descriptors and the locks stay as they are and an
\* instance in the held state stays in it; release() only ever runs on an
\* instance whose entry succeeded.
C18_ReleaseOnlyAfterEntry ==
    \A i \in Insts :
        /\ pc[i] = "r_remove" => (ctx[i] = "with" /\ self_fd[i] # NoFd)
        /\ pc[i] = "w_body" => self_fd[i] # NoFd

C18_FailedEntryLeaves ==
    \A b \in Insts :
        (pc[b] = "a_ret" /\ ctx[b] = "with" /\ exc[b] # NoExc /\ pc'[b] # pc[b]) =>
            /\ pc'[b] = "idle"
            /\ path' = path
            /\ lockOwner' = lockOwner
            /\ fdtab' = fdtab
            /\ \A a \in Insts : Held(a) => Held(a)'

C18_FailedEntryRunsNoExit ==
    /\ []C18_ReleaseOnlyAfterEntry
    /\ [][C18_FailedEntryLeaves]_vars

\* C18's case: __enter__ is about to raise LockError while another process
\* is inside its guarded block, holding the lock on the file at the path.
C18_Witness ==
    \E b \in Insts : \E a \in Insts :
        /\ pc[b] = "a_ret"
        /\ ctx[b] = "with"
        /\ exc[b] = LockError
        /\ procOf[a] # procOf[b]
        /\ pc[a] = "w_body"
        /\ path = FileOf(procOf[a], self_fd[a])

\* C19: the retry loop terminates.  The loop of acquire() starts another
\* iteration only when, between the os.open of the iteration and its
\* os.stat, someone else unlinked the path or put a new file at it; and a
\* call of acquire() that keeps being scheduled comes to its end, with
\* success or with an exception, provided that from some point on nobody
\* else changes what the path names.
C19_LoopBody == {"a_open", "a_lock", "a_stat", "a_fstat", "a_finally"}

C19_OthersMove(i) == path' # path /\ pc'[i] = pc[i]

C19_RetryHasCause ==
    \A i \in Insts :
        (pc[i] = "a_finally" /\ pc'[i] = "a_open") => moved[i]

C19_LoopTerminates ==
    /\ [][C19_RetryHasCause]_vars
    /\ \A i \in Insts :
          <>[][~C19_OthersMove(i)]_vars
             => ((pc[i] \in C19_LoopBody) ~> (pc[i] = "a_ret"))

\* C19's case: an iteration has lost the race against an unlink or a new
\* file at the path, and the loop is about to start again.
C19_Witness ==
    \E i \in Insts :
        /\ pc[i] = "a_finally"
        /\ moved[i]
        /\ exc[i] = NoExc
        /\ self_fd[i] = NoFd

====
